---- MODULE Spec2Model ----
(***************************************************************************)
(* AULA F87 lighting controller: the WebHID protocol engine (lib/webhid),  *)
(* the useKeyboard hook that wraps it, and the control panel that calls    *)
(* the hook.  Frames are sequences of bytes; byte i of the source (0-based)*)
(* is element i+1 here, read with B and written with SetB.                 *)
(***************************************************************************)
EXTENDS Integers, Sequences, FiniteSets, TLC

\* ------------------------------------------------------------------ bounds
\* Number of reports that may still be undelivered by the device when a
\* receive wait of the host runs into its timeout.
MaxLate == 1
\* Number of frames two operations started from the settings panel have sent
\* between them when their sleeps stop being followed (SpecPanel).
MaxPanelSent == 4

\* ------------------------------------------------------- protocol constants
REPORT_ID == 19
CMD_READ == 68
CMD_WRITE == 4
CMD_COLOR == 9
CMD_PERKEY == 2
CMD_SAVE == 10
SUBCMD_CONFIG == 10
SUBCMD_PALETTE == 37
SUBCMD_PERKEY == 28
SUBCMD_CONFIRM == 1
SELF_DEFINE_EFFECT == 21

\* null of the source, for numbers and for byte arrays
NULL == -1
NoFrame == <<>>

\* ------------------------------------------------------------ byte arrays
B(f, i) == f[i + 1]
SetB(f, i, v) == [f EXCEPT ![i + 1] = v % 256]
Zeros(n) == [i \in 1..n |-> 0]

RECURSIVE SumTo(_, _)
SumTo(f, n) == IF n = 0 THEN 0 ELSE f[n] + SumTo(f, n - 1)

\* checksum(frame): sum of bytes 0..18 modulo 256
checksum(f) == SumTo(f, 19) % 256

\* buildFrame(cmd, sub, seq, payload): header, payload zero-padded to 15, checksum
buildFrame(cmd, sub, seq, payload) ==
    LET pad == [i \in 1..15 |-> IF i <= Len(payload) THEN payload[i] ELSE 0]
        body == <<REPORT_ID, cmd, sub, seq % 256>> \o pad
    IN  Append(body, checksum(body))

\* ---------------------------------------------------------- effect table
EFFECTS == (1..18) \cup {SELF_DEFINE_EFFECT}

\* effectTableLoc(n): <<config fragment, byte offset>> of the parameter pair
effectTableLoc(n) ==
    IF n \in 1..6 THEN <<4, 7 + (n - 1) * 2>>
    ELSE IF n \in 7..13 THEN <<5, 5 + (n - 7) * 2>>
    ELSE IF n \in 14..18 THEN <<6, 5 + (n - 14) * 2>>
    ELSE <<NULL, NULL>>

encodeSpeedByte(speed, colorful) ==
    ((speed * 16) + (IF colorful THEN 7 ELSE 0)) % 256

decodeSpeedByte(b) == [speed |-> b \div 16, colorful |-> (b % 16) = 7]

\* ------------------------------------------------------------- templates
DefaultPair == <<4, 71>>

\* CFG_TEMPLATE[seq]: the 15 payload bytes of the factory configuration
CFG_TEMPLATE(seq) ==
    IF seq = 0 THEN <<14, 0, 4, 4, 0, 0, 0, 4, 4, 7, 0, 1, 32, 3, 0>>
    ELSE IF seq = 4 THEN <<14, 255, 255>> \o DefaultPair \o DefaultPair \o DefaultPair
                          \o DefaultPair \o DefaultPair \o DefaultPair
    ELSE IF seq = 5 THEN <<14>> \o DefaultPair \o DefaultPair \o DefaultPair \o DefaultPair
                          \o DefaultPair \o DefaultPair \o DefaultPair
    ELSE IF seq = 6 THEN <<14>> \o DefaultPair \o DefaultPair \o DefaultPair \o DefaultPair
                          \o DefaultPair \o <<0, 0, 0, 0>>
    ELSE <<14>> \o Zeros(14)

PAL_TEMPLATE_LEN == 3
PAL_TEMPLATE(i) ==
    IF i = 0 THEN <<14, 255, 0, 0, 0, 255, 0, 0, 0, 255, 255, 255, 0, 0, 255>>
    ELSE IF i = 1 THEN <<14, 255, 255, 255, 255, 255, 0, 0, 0, 0, 0, 0, 0, 0, 0>>
    ELSE <<14, 0, 255, 255, 255, 0, 255, 0, 0, 0, 0, 0, 0, 0, 0>>
PAL_ZEROS == Zeros(15)
PAL_LAST == <<6, 0, 0, 90, 165, 0, 0, 0, 0, 0, 0, 0, 0, 0, 0>>

\* ------------------------------------------------------------------ state
VARIABLES
    devOpen,    \* device?.opened of the HIDDevice held by useKeyboard
    devMute,    \* the opened interface is not the vendor collection: it never answers
    outbox,     \* reports the keyboard has queued and not yet raised as events
    tasks,      \* the host operations in flight, one record per slot
    ui,         \* control panel: visible tab and the panels' busy flags
    templates   \* the arrays CFG_TEMPLATE, PAL_TEMPLATE, PAL_LAST, PAL_ZEROS in memory

vars == <<devOpen, devMute, outbox, tasks, ui, templates>>

\* the template arrays as the module is loaded
LoadedTemplates ==
    [cfg |-> [s \in 0..9 |-> CFG_TEMPLATE(s)],
     pal |-> [i \in 0..(PAL_TEMPLATE_LEN - 1) |-> PAL_TEMPLATE(i)],
     last |-> PAL_LAST,
     zeros |-> PAL_ZEROS]

\* ------------------------------------------------- frames of an operation
gotConfig(config) == \A s \in 0..9 : config[s] /= NoFrame

\* (variant: only a custom color selects color mode 0x01)
ColorModeIgnoresColorful(a) == IF a.colorRgb /= NoFrame THEN 1 ELSE 3

ColorMode(a) == IF a.colorRgb /= NoFrame \/ a.colorful THEN 1 ELSE 3

\* (variant: a brightness that is not given is written as 0)
PatchPairBrightnessDefault(f, off, a) ==
    LET f1 == SetB(f, off, IF a.brightness /= NULL THEN a.brightness ELSE 0)
        cur == decodeSpeedByte(B(f1, off + 1))
    IN  SetB(f1, off + 1,
             encodeSpeedByte(IF a.speed /= NULL THEN a.speed ELSE cur.speed,
                             IF a.colorful THEN TRUE
                             ELSE (a.colorRgb = NoFrame /\ cur.colorful)))

\* (variant: the current color mode is negated when it is carried over)
PatchPairTogglesMode(f, off, a) ==
    LET f1 == IF a.brightness /= NULL THEN SetB(f, off, a.brightness) ELSE f
        cur == decodeSpeedByte(B(f1, off + 1))
    IN  SetB(f1, off + 1,
             encodeSpeedByte(IF a.speed /= NULL THEN a.speed ELSE cur.speed,
                             IF a.colorful THEN TRUE
                             ELSE (a.colorRgb = NoFrame /\ ~cur.colorful)))

\* the brightness / speed pair of the target effect, at byte offset off of f
PatchPair(f, off, a) ==
    LET f1 == IF a.brightness /= NULL THEN SetB(f, off, a.brightness) ELSE f
        cur == decodeSpeedByte(B(f1, off + 1))
    IN  SetB(f1, off + 1,
             encodeSpeedByte(IF a.speed /= NULL THEN a.speed ELSE cur.speed,
                             IF a.colorful THEN TRUE
                             ELSE (a.colorRgb = NoFrame /\ cur.colorful)))

\* (variant: the pair is patched at its payload offset in the frame read)
EffectFrameFromReadPayloadOffset(a, config, seq) ==
    LET loc == effectTableLoc(a.effectNum)
        f1 == SetB(config[seq], 1, CMD_WRITE)
        f2 == IF seq = 0
              THEN SetB(SetB(SetB(SetB(f1, 8, 1), 14, 0), 15, a.effectNum), 17, ColorMode(a))
              ELSE f1
        f3 == IF seq = loc[1] THEN PatchPair(f2, loc[2] - 4, a) ELSE f2
    IN  SetB(f3, 19, checksum(f3))

\* setEffect, config fragment seq copied from the read and mutated
EffectFrameFromRead(a, config, seq) ==
    LET loc == effectTableLoc(a.effectNum)
        f1 == SetB(config[seq], 1, CMD_WRITE)
        f2 == IF seq = 0
              THEN SetB(SetB(SetB(SetB(f1, 8, 1), 14, 0), 15, a.effectNum), 17, ColorMode(a))
              ELSE f1
        f3 == IF seq = loc[1] THEN PatchPair(f2, loc[2], a) ELSE f2
    IN  SetB(f3, 19, checksum(f3))

\* (variant: the template branch leaves the pair of the target effect alone)
EffectFrameFromTemplateNoPair(a, seq) ==
    LET p0 == templates.cfg[seq]
        p1 == IF seq = 0
              THEN SetB(SetB(SetB(SetB(p0, 4, 1), 10, 0), 11, a.effectNum), 13, ColorMode(a))
              ELSE p0
    IN  buildFrame(CMD_WRITE, SUBCMD_CONFIG, seq, p1)

\* setEffect, config fragment seq built from the template
EffectFrameFromTemplate(a, seq) ==
    LET loc == effectTableLoc(a.effectNum)
        p0 == templates.cfg[seq]
        p1 == IF seq = 0
              THEN SetB(SetB(SetB(SetB(p0, 4, 1), 10, 0), 11, a.effectNum), 13, ColorMode(a))
              ELSE p0
        p2 == IF seq = loc[1] THEN PatchPair(p1, loc[2] - 4, a) ELSE p1
    IN  buildFrame(CMD_WRITE, SUBCMD_CONFIG, seq, p2)

\* (variant: every fragment that was read is used, the template fills the gaps)
EffectWriteFramesPerSlot(a, config) ==
    [i \in 1..10 |-> IF config[i - 1] /= NoFrame THEN EffectFrameFromRead(a, config, i - 1)
                     ELSE EffectFrameFromTemplate(a, i - 1)]

EffectWriteFrames(a, config) ==
    [i \in 1..10 |-> IF gotConfig(config) THEN EffectFrameFromRead(a, config, i - 1)
                     ELSE EffectFrameFromTemplate(a, i - 1)]

\* (variant: the effect number read from the keyboard is kept)
PerKeyFrameFromReadKeepsEffect(config, seq) ==
    LET f1 == SetB(config[seq], 1, CMD_WRITE)
        f2 == IF seq = 0 THEN SetB(SetB(SetB(f1, 8, 1), 14, 0), 17, 1) ELSE f1
    IN  SetB(f2, 19, checksum(f2))

\* (variant: the checksum is computed before fragment 0 is patched)
PerKeyFrameFromReadStaleChecksum(config, seq) ==
    LET f1 == SetB(config[seq], 1, CMD_WRITE)
        f2 == SetB(f1, 19, checksum(f1))
    IN  IF seq = 0
        THEN SetB(SetB(SetB(SetB(f2, 8, 1), 14, 0), 15, SELF_DEFINE_EFFECT), 17, 1)
        ELSE f2

\* applyPerKey, config fragment seq (self-define mode)
PerKeyFrameFromRead(config, seq) ==
    LET f1 == SetB(config[seq], 1, CMD_WRITE)
        f2 == IF seq = 0
              THEN SetB(SetB(SetB(SetB(f1, 8, 1), 14, 0), 15, SELF_DEFINE_EFFECT), 17, 1)
              ELSE f1
    IN  SetB(f2, 19, checksum(f2))

PerKeyFrameFromTemplate(seq) ==
    LET p0 == templates.cfg[seq]
        p1 == IF seq = 0
              THEN SetB(SetB(SetB(SetB(p0, 4, 1), 10, 0), 11, SELF_DEFINE_EFFECT), 13, 1)
              ELSE p0
    IN  buildFrame(CMD_WRITE, SUBCMD_CONFIG, seq, p1)

PerKeyWriteFrames(config) ==
    [i \in 1..10 |-> IF gotConfig(config) THEN PerKeyFrameFromRead(config, i - 1)
                     ELSE PerKeyFrameFromTemplate(i - 1)]

\* (variant: setSleepTimer does not set the confirm flag)
SleepFrameNoConfirm(config, s, minutes) ==
    LET f1 == SetB(config[s], 1, CMD_WRITE)
        f3 == IF s = 1 THEN SetB(f1, 15, minutes * 2) ELSE f1
    IN  SetB(f3, 19, checksum(f3))

\* (variant: the sleep byte holds the minutes, not the half-minute units)
SleepFrameRawMinutes(config, s, minutes) ==
    LET f1 == SetB(config[s], 1, CMD_WRITE)
        f2 == IF s = 0 THEN SetB(f1, 8, 1) ELSE f1
        f3 == IF s = 1 THEN SetB(f2, 15, minutes) ELSE f2
    IN  SetB(f3, 19, checksum(f3))

\* setSleepTimer, config fragment s copied from the read and mutated
SleepFrame(config, s, minutes) ==
    LET f1 == SetB(config[s], 1, CMD_WRITE)
        f2 == IF s = 0 THEN SetB(f1, 8, 1) ELSE f1
        f3 == IF s = 1 THEN SetB(f2, 15, minutes * 2) ELSE f2
    IN  SetB(f3, 19, checksum(f3))

SleepWriteFrames(config, minutes) == [i \in 1..10 |-> SleepFrame(config, i - 1, minutes)]

\* factoryReset, config fragment s from the template
ResetFrame(s) ==
    LET p0 == templates.cfg[s]
        p1 == IF s = 0 THEN SetB(p0, 4, 1) ELSE p0
    IN  buildFrame(CMD_WRITE, SUBCMD_CONFIG, s, p1)

ResetWriteFrames == [i \in 1..10 |-> ResetFrame(i - 1)]

PalettePayload(i) ==
    IF i < PAL_TEMPLATE_LEN THEN templates.pal[i]
    ELSE IF i = 36 THEN templates.last
    ELSE templates.zeros

\* (variant: the active flag of fragment 1 is set with or without a color)
PaletteFrameAlwaysActive(i, colorRgb) ==
    LET p0 == PalettePayload(i)
        p1 == IF i = 1 /\ colorRgb /= NoFrame
              THEN SetB(SetB(SetB(p0, 8, colorRgb[1]), 9, colorRgb[2]), 10, colorRgb[3])
              ELSE p0
        p2 == IF i = 1 THEN SetB(p1, 12, 255) ELSE p1
    IN  buildFrame(CMD_COLOR, SUBCMD_PALETTE, i, p2)

\* setEffect, palette fragment i
PaletteFrame(i, colorRgb) ==
    LET p0 == PalettePayload(i)
        p1 == IF i = 1 /\ colorRgb /= NoFrame
              THEN SetB(SetB(SetB(SetB(p0, 8, colorRgb[1]), 9, colorRgb[2]),
                             10, colorRgb[3]), 12, 255)
              ELSE p0
    IN  buildFrame(CMD_COLOR, SUBCMD_PALETTE, i, p1)

PaletteFrames(colorRgb) == [i \in 1..37 |-> PaletteFrame(i - 1, colorRgb)]

\* factoryReset, palette fragment i
ResetPaletteFrames == [i \in 1..37 |-> buildFrame(CMD_COLOR, SUBCMD_PALETTE, i - 1,
                                                  PalettePayload(i - 1))]

\* (variant: the planes are filled in the order blue, green, red)
PlaneValueReversed(keyColors, ch, i) ==
    IF i \in DOMAIN keyColors /\ i >= 0 /\ i < 126 THEN keyColors[i][4 - ch] % 256 ELSE 0

\* applyPerKey: channel ch (1 red, 2 green, 3 blue) of LED i
PlaneValue(keyColors, ch, i) ==
    IF i \in DOMAIN keyColors /\ i >= 0 /\ i < 126 THEN keyColors[i][ch] % 256 ELSE 0

\* (variant: the three channels of a LED are in consecutive frames)
PerKeyDataFrameInterleaved(keyColors, seq) ==
    LET ch == (seq % 3) + 1
        s == seq \div 3
        payload == <<14>> \o [j \in 1..14 |-> PlaneValue(keyColors, ch, s * 14 + (j - 1))]
    IN  buildFrame(CMD_PERKEY, SUBCMD_PERKEY, seq, payload)

PerKeyDataFrame(keyColors, seq) ==
    LET ch == (seq \div 9) + 1
        s == seq % 9
        payload == <<14>> \o [j \in 1..14 |-> PlaneValue(keyColors, ch, s * 14 + (j - 1))]
    IN  buildFrame(CMD_PERKEY, SUBCMD_PERKEY, seq, payload)

PerKeyTrailer == buildFrame(CMD_PERKEY, SUBCMD_PERKEY, 27, <<6, 0, 0, 90, 165>> \o Zeros(10))

PerKeyFrames(keyColors) ==
    [i \in 1..28 |-> IF i <= 27 THEN PerKeyDataFrame(keyColors, i - 1) ELSE PerKeyTrailer]

ReadFrame == buildFrame(CMD_READ, SUBCMD_CONFIRM, 0, Zeros(15))
SaveFrame == buildFrame(CMD_SAVE, SUBCMD_CONFIRM, 0, <<4, 7>> \o Zeros(13))

\* ------------------------------------------------------------ the device
\* Configurations the keyboard may hold when it is read.  "noisy" holds the
\* used configuration and answers a READ with two more reports in front: a
\* fragment 0 of older content and a fragment with sequence 10.  "worn" holds
\* parameter bytes outside the documented ranges and reports each fragment
\* with a checksum that does not match and one byte more than a frame has.
DevCfgs == {"factory", "used", "noisy", "worn"}

UsedPair == <<1, 32>>
WornPair3 == <<2, 243>>
WornPair5 == <<7, 67>>

\* payload of config fragment seq as the device reports it
DevPayload(cfg, seq) ==
    IF cfg = "factory" THEN CFG_TEMPLATE(seq)
    ELSE IF seq = 0 THEN <<14, 0, 2, 3, 1, 0, 0, 4, 4, 7, 1, 2, 32, 3, 51>>
    ELSE IF seq = 1 THEN <<14>> \o Zeros(10) \o <<10, 0, 0, 52>>
    ELSE IF seq = 4 /\ cfg = "worn"
         THEN <<14, 255, 255>> \o UsedPair \o UsedPair \o WornPair3
               \o UsedPair \o WornPair5 \o UsedPair
    ELSE IF seq = 4 THEN <<14, 255, 255>> \o UsedPair \o UsedPair \o UsedPair
                          \o UsedPair \o UsedPair \o UsedPair
    ELSE IF seq = 5 THEN <<14>> \o UsedPair \o UsedPair \o UsedPair \o UsedPair
                          \o UsedPair \o UsedPair \o UsedPair
    ELSE IF seq = 6 THEN <<14>> \o UsedPair \o UsedPair \o UsedPair \o UsedPair
                          \o UsedPair \o <<0, 0, 0, 51>>
    ELSE <<14>> \o Zeros(13) \o <<51 + seq>>

\* the inbound report for config fragment seq: cmd READ, subcmd CONFIG
DevFragment(cfg, seq) ==
    LET f == buildFrame(CMD_READ, SUBCMD_CONFIG, seq, DevPayload(cfg, seq))
    IN  IF cfg = "worn" THEN SetB(f, 19, B(f, 19) + 1) \o <<0>> ELSE f

\* the reports the keyboard answers a READ request with
DevAnswer(cfg) ==
    IF cfg = "noisy"
    THEN <<DevFragment("factory", 0), buildFrame(CMD_READ, SUBCMD_CONFIG, 10, <<14>>)>>
         \o [i \in 1..10 |-> DevFragment("used", i - 1)]
    ELSE [i \in 1..10 |-> DevFragment(cfg, i - 1)]

\* what the keyboard queues when it receives a frame: the fragments for a
\* READ request, the echo (the same 20 bytes) for anything else
DevReceive(ob, cfg, frame) ==
    IF frame[2] = CMD_READ
    THEN ob \o DevAnswer(cfg)
    ELSE Append(ob, frame)

\* ------------------------------------------------------------------ tasks
\* One slot per operation that may be in flight at a time.
Slots == {1, 2}

NoArgs == [effectNum |-> NULL, brightness |-> NULL, speed |-> NULL, colorRgb |-> NoFrame,
           colorful |-> FALSE, keyColors |-> [i \in {} |-> NoFrame], minutes |-> NULL]

NoConfig == [s \in 0..9 |-> NoFrame]

NoFigure == <<"", 0, 0>>

\* A task is one call of a useKeyboard wrapper.  op, a: the operation and its
\* arguments; pc: idle, sleep (a sleep() is pending, no listener), wait (a
\* readReport listener is registered), done; stage, idx, echoes: the phase,
\* the index of the frame (of the receive attempt, when reading) and the
\* echoes counted in it; config, wframes: the result of readConfig and the
\* frames built from it, dropped when the config phase is over; got: whether
\* readConfig filled every slot (full), some (partial) or none (empty); sent: the
\* header <<command, subcommand, sequence>> of every frame handed to the
\* transport, last: the last of these frames in full; log: the lines logged,
\* figure: the "label: n/total OK" line if the last step logged one.
IdleTask == [op |-> "none", a |-> NoArgs, pc |-> "idle", stage |-> "none", idx |-> 0,
             config |-> NoConfig, got |-> "unread", wframes |-> <<>>, echoes |-> 0,
             sent |-> <<>>, last |-> NoFrame, log |-> <<>>, figure |-> NoFigure,
             panel |-> "none", orphan |-> FALSE]

Header(frame) == <<frame[2], frame[3], frame[4]>>

\* ----------------------------------------------------- lib/webhid, steps
\* (variant: a failed send is swallowed and the operation goes on)
sendReportSwallows(tk, frame, open) ==
    IF open
    THEN [tk EXCEPT !.sent = Append(@, Header(frame)), !.last = frame, !.pc = "sleep"]
    ELSE [tk EXCEPT !.pc = "sleep"]

\* sendReport: hand the frame to the transport; a closed device rejects, the
\* exception unwinds the operation into the catch of the useKeyboard wrapper
sendReport(tk, frame, open) ==
    IF open
    THEN [tk EXCEPT !.sent = Append(@, Header(frame)), !.last = frame, !.pc = "sleep"]
    ELSE [tk EXCEPT !.pc = "done", !.log = Append(@, "ERROR")]

StageLen(tk) ==
    CASE tk.stage = "config" -> 10
      [] tk.stage = "palette" -> 37
      [] tk.stage = "perkey" -> 28
      [] OTHER -> 1

\* frame i (0-based) of the phase the operation is in
StageFrame(tk, i) ==
    CASE tk.stage = "config" -> tk.wframes[i + 1]
      [] tk.stage = "palette" ->
            IF tk.op = "setEffect" THEN PaletteFrame(i, tk.a.colorRgb)
            ELSE ResetPaletteFrames[i + 1]
      [] tk.stage = "perkey" -> PerKeyFrames(tk.a.keyColors)[i + 1]
      [] OTHER -> SaveFrame

StageLabel(tk) ==
    CASE tk.stage = "config" -> "Config"
      [] tk.stage = "palette" -> "Palette"
      [] OTHER -> "PerKey"

\* (variant: setEffect sends the palette only with a custom color)
NextStagePaletteOnlyWithColor(tk) ==
    IF tk.stage = "config"
    THEN CASE tk.op = "setEffect" -> IF tk.a.colorRgb /= NoFrame THEN "palette" ELSE "save"
           [] tk.op = "factoryReset" -> "palette"
           [] tk.op = "applyPerKey" -> "perkey"
           [] OTHER -> "save"
    ELSE "save"

\* the phase that follows a finished txBulk
NextStage(tk) ==
    IF tk.stage = "config"
    THEN CASE tk.op = "setEffect" -> "palette"
           [] tk.op = "factoryReset" -> "palette"
           [] tk.op = "applyPerKey" -> "perkey"
           [] OTHER -> "save"
    ELSE "save"

BeginStage(tk, stage, open) ==
    LET t1 == IF stage = "config"
              THEN [tk EXCEPT !.stage = stage, !.idx = 0, !.echoes = 0]
              ELSE [tk EXCEPT !.stage = stage, !.idx = 0, !.echoes = 0,
                              !.config = NoConfig, !.wframes = <<>>]
    IN  sendReport(t1, StageFrame(t1, 0), open)

\* (variant: a missing echo ends the operation with an error)
AfterEchoAbortOnMiss(tk, got, open) ==
    IF ~got THEN [tk EXCEPT !.pc = "done", !.log = Append(@, "ERROR")]
    ELSE IF tk.stage = "save"
    THEN [tk EXCEPT !.pc = "done", !.log = Append(@, "success")]
    ELSE LET t1 == [tk EXCEPT !.echoes = @ + 1, !.idx = @ + 1]
         IN  IF t1.idx < StageLen(t1)
             THEN sendReport(t1, StageFrame(t1, t1.idx), open)
             ELSE BeginStage([t1 EXCEPT !.log = Append(@, "OK"),
                                        !.figure = <<StageLabel(t1), t1.echoes,
                                                     StageLen(t1)>>],
                             NextStage(t1), open)

\* (variant: a frame whose echo did not arrive is sent once more)
AfterEchoResendsOnMiss(tk, got, open) ==
    IF tk.stage = "save"
    THEN [tk EXCEPT !.pc = "done", !.log = Append(@, "success")]
    ELSE IF ~got /\ tk.echoes = tk.idx
    THEN sendReport(tk, StageFrame(tk, tk.idx), open)
    ELSE LET t1 == [tk EXCEPT !.echoes = @ + (IF got THEN 1 ELSE 0), !.idx = @ + 1]
         IN  IF t1.idx < StageLen(t1)
             THEN sendReport(t1, StageFrame(t1, t1.idx), open)
             ELSE BeginStage([t1 EXCEPT !.log = Append(@, "OK"),
                                        !.figure = <<StageLabel(t1), t1.echoes,
                                                     StageLen(t1)>>],
                             NextStage(t1), open)

\* txRx / txBulk resumed after readReport resolved (got: a report arrived)
AfterEcho(tk, got, open) ==
    IF tk.stage = "save"
    THEN [tk EXCEPT !.pc = "done", !.log = Append(@, "success")]
    ELSE LET t1 == [tk EXCEPT !.echoes = @ + (IF got THEN 1 ELSE 0), !.idx = @ + 1]
         IN  IF t1.idx < StageLen(t1)
             THEN sendReport(t1, StageFrame(t1, t1.idx), open)
             ELSE BeginStage([t1 EXCEPT !.log = Append(@, "OK"),
                                        !.figure = <<StageLabel(t1), t1.echoes,
                                                     StageLen(t1)>>],
                             NextStage(t1), open)

\* the write frames an operation builds once readConfig has returned
WriteFrames(tk) ==
    CASE tk.op = "setEffect" -> EffectWriteFrames(tk.a, tk.config)
      [] tk.op = "applyPerKey" -> PerKeyWriteFrames(tk.config)
      [] OTHER -> SleepWriteFrames(tk.config, tk.a.minutes)

Filled(config) == Cardinality({s \in 0..9 : config[s] /= NoFrame})

\* the line logged when readConfig has returned: setEffect logs the current
\* effect or 'Using template', setSleepTimer the current value, applyPerKey none
ReadLine(tk, full) ==
    IF tk.op = "applyPerKey" THEN tk.log
    ELSE Append(tk.log, IF full THEN "Current" ELSE "Using template")

\* (variant: setSleepTimer falls back to the template like the other operations)
EndReadSleepFallsBack(tk, open) ==
    LET full == gotConfig(tk.config)
        got == IF full THEN "full" ELSE IF Filled(tk.config) = 0 THEN "empty" ELSE "partial"
    IN  BeginStage([tk EXCEPT !.got = got,
                              !.wframes = IF tk.op = "setSleepTimer" /\ ~full
                                          THEN ResetWriteFrames ELSE WriteFrames(tk),
                              !.config = IF full THEN @ ELSE NoConfig,
                              !.log = ReadLine(tk, full)],
                   "config", open)

\* readConfig has returned.  A config that is not complete is not read again
\* by any operation, so only how much of it was filled is kept.
EndRead(tk, open) ==
    LET full == gotConfig(tk.config)
        got == IF full THEN "full" ELSE IF Filled(tk.config) = 0 THEN "empty" ELSE "partial"
    IN  IF tk.op = "setSleepTimer" /\ ~full
        THEN [tk EXCEPT !.pc = "done", !.got = got, !.config = NoConfig,
                        !.log = Append(@, "ERROR: Could not read config")]
        ELSE BeginStage([tk EXCEPT !.got = got, !.wframes = WriteFrames(tk),
                                   !.config = IF full THEN @ ELSE NoConfig,
                                   !.log = ReadLine(tk, full)],
                        "config", open)

\* readConfig: does report r fill a slot
IsConfigFragment(r) ==
    /\ Len(r) >= 20
    /\ B(r, 0) = REPORT_ID
    /\ B(r, 1) = CMD_READ
    /\ B(r, 2) = SUBCMD_CONFIG
    /\ B(r, 3) >= 0 /\ B(r, 3) < 10

\* (variant: a receive attempt that times out is followed by the next attempt)
AfterReadRetries(tk, r, open) ==
    LET t1 == [tk EXCEPT !.idx = @ + 1,
                         !.config = IF r /= NoFrame /\ IsConfigFragment(r)
                                    THEN [@ EXCEPT ![B(r, 3)] = r] ELSE @]
    IN  IF t1.idx < 12 THEN t1 ELSE EndRead(t1, open)

\* (variant: a slot that is filled keeps its first report)
AfterReadKeepsFirst(tk, r, open) ==
    IF r = NoFrame THEN EndRead(tk, open)
    ELSE LET t1 == [tk EXCEPT !.idx = @ + 1,
                              !.config = IF IsConfigFragment(r) /\ @[B(r, 3)] = NoFrame
                                         THEN [@ EXCEPT ![B(r, 3)] = r] ELSE @]
         IN  IF t1.idx < 12 THEN t1 ELSE EndRead(t1, open)

\* (variant: a report that is no config fragment is not counted as an attempt)
AfterReadSkipsStrays(tk, r, open) ==
    IF r = NoFrame THEN EndRead(tk, open)
    ELSE IF ~IsConfigFragment(r) THEN tk
    ELSE LET t1 == [tk EXCEPT !.idx = @ + 1, !.config = [@ EXCEPT ![B(r, 3)] = r]]
         IN  IF t1.idx < 12 THEN t1 ELSE EndRead(t1, open)

\* readConfig resumed after readReport resolved with r (NoFrame: timeout)
AfterRead(tk, r, open) ==
    IF r = NoFrame THEN EndRead(tk, open)
    ELSE LET t1 == [tk EXCEPT !.idx = @ + 1,
                              !.config = IF IsConfigFragment(r)
                                         THEN [@ EXCEPT ![B(r, 3)] = r] ELSE @]
         IN  IF t1.idx < 12 THEN t1 ELSE EndRead(t1, open)

\* a pending readReport of the operation resolves with r (NoFrame: timeout)
Resume(tk, r, open) ==
    IF tk.stage = "read" THEN AfterRead(tk, r, open) ELSE AfterEcho(tk, r /= NoFrame, open)

\* the frames the operation handed to the transport in a step, as the device sees them
Handed(old, new, ob, cfg, mute) ==
    IF Len(new.sent) > Len(old.sent) /\ ~mute THEN DevReceive(ob, cfg, new.last) ELSE ob

\* the step from old to new is the one in which the operation builds its
\* config frames from CFG_TEMPLATE
BuildsFromTemplate(old, new) ==
    /\ old.wframes = <<>>
    /\ new.wframes /= <<>>
    /\ new.got /= "full"

\* (variant: the template path patches CFG_TEMPLATE[seq] itself)
TemplatesAfterInPlace(tpl, old, new) ==
    IF BuildsFromTemplate(old, new)
    THEN [tpl EXCEPT !.cfg = [s \in 0..9 |-> SubSeq(new.wframes[s + 1], 5, 19)]]
    ELSE tpl

\* the template arrays after a step of an operation: the template path
\* patches new Uint8Array(CFG_TEMPLATE[seq]), setEffect's palette
\* new Uint8Array(PAL_TEMPLATE[i]), each a copy of the array; factoryReset
\* hands the palette arrays to buildFrame, which copies them into the frame
TemplatesAfter(tpl, old, new) == tpl

\* ------------------------------------------------- lib/webhid, operations
Begin(op, a) == [IdleTask EXCEPT !.op = op, !.a = a]

\* readConfig up to its first await: the READ request is sent
StartRead(tk, open) == sendReport([tk EXCEPT !.stage = "read", !.idx = 0], ReadFrame, open)

\* (variant: the lookup is not checked)
UnknownEffectUnchecked(effectNum) == FALSE

UnknownEffect(effectNum) == effectNum \notin EFFECTS

setEffect(a, open) ==
    IF UnknownEffect(a.effectNum)
    THEN [Begin("setEffect", a) EXCEPT !.pc = "done", !.log = <<"Unknown effect">>]
    ELSE StartRead([Begin("setEffect", a) EXCEPT !.log = <<"Setting">>], open)

applyPerKey(a, open) ==
    StartRead([Begin("applyPerKey", a) EXCEPT !.log = <<"Applying per-key">>], open)

setSleepTimer(a, open) ==
    StartRead([Begin("setSleepTimer", a) EXCEPT !.log = <<"Setting sleep timer">>], open)

\* (variant: factoryReset reads the configuration first)
factoryResetReadsFirst(a, open) ==
    StartRead([Begin("factoryReset", a) EXCEPT !.log = <<"Factory resetting">>], open)

factoryReset(a, open) ==
    BeginStage([Begin("factoryReset", a) EXCEPT !.log = <<"Factory resetting">>,
                                                !.wframes = ResetWriteFrames],
               "config", open)

Operation(op, a, open) ==
    CASE op = "setEffect" -> setEffect(a, open)
      [] op = "applyPerKey" -> applyPerKey(a, open)
      [] op = "setSleepTimer" -> setSleepTimer(a, open)
      [] OTHER -> factoryReset(a, open)

\* ------------------------------------------------------ hooks/useKeyboard
\* (variant: the wrappers do not look at the device)
NotConnectedUnchecked(open) == FALSE

\* the guard of doSetEffect, doApplyPerKey, doSetSleep and doFactoryReset
NotConnected(open) == ~open

\* doSetEffect / doApplyPerKey / doSetSleep / doFactoryReset up to the first await
doOperation(op, a, open) ==
    IF NotConnected(open)
    THEN [Begin(op, a) EXCEPT !.pc = "done", !.log = <<"Not connected!">>]
    ELSE Operation(op, a, open)

\* ----------------------------------------------------------------- inputs
Rgb1 == <<255, 0, 16>>

EffectArgs(n, b, s, c, cf) ==
    [NoArgs EXCEPT !.effectNum = n, !.brightness = b, !.speed = s, !.colorRgb = c,
                   !.colorful = cf]

EffectCalls ==
    { EffectArgs(3, 2, NULL, NoFrame, TRUE),
      EffectArgs(1, NULL, NULL, Rgb1, FALSE),
      EffectArgs(7, 4, 3, NoFrame, FALSE),
      EffectArgs(5, NULL, NULL, NoFrame, FALSE),
      EffectArgs(21, NULL, NULL, NoFrame, FALSE),
      EffectArgs(19, 4, 4, NoFrame, TRUE) }

KeyMaps ==
    { [i \in {} |-> NoFrame],
      [i \in {0, 62, 125} |-> <<i + 1, 200, 7>>],
      [i \in {0, 62, 125, 126} |-> <<i + 1, 200, 7>>],
      [i \in 0..125 |-> <<i, 255 - i, (i * 7) % 256>>] }

PerKeyCalls == { [NoArgs EXCEPT !.keyColors = m] : m \in KeyMaps }

SleepCalls == { [NoArgs EXCEPT !.minutes = m] : m \in {0, 5, 10, 15} }

\* ------------------------------------------------------- control panel
\* EFFECTS[n].speed and EFFECTS[n].color
EffectSpeed(n) == n \notin {1, SELF_DEFINE_EFFECT}
EffectColor(n) == n \notin {3, 15, 16, 17, SELF_DEFINE_EFFECT}

\* the effects the user picks in the grid
UiEffects == {3}

\* EffectsPanel.handleApply: the options built from the panel's state, with
\* color '#ff0000', colorful off, speed 4 and brightness 4 as first rendered
UiEffectArgs(n) ==
    LET isColorful == IF EffectColor(n) THEN FALSE ELSE TRUE
    IN  EffectArgs(n, 4, IF EffectSpeed(n) THEN 4 ELSE NULL,
                   IF isColorful THEN NoFrame ELSE <<255, 0, 0>>, isColorful)

\* the tab that renders the panel owning a busy flag
TabOf(flag) ==
    CASE flag = "effects" -> "effects"
      [] flag = "perkey" -> "perkey"
      [] OTHER -> "settings"

\* disabled={applying} / disabled={resetting} of the button owning the flag
Disabled(flag) == flag \in ui.busy

\* ---------------------------------------------------------------- actions
Init ==
    /\ devOpen = FALSE
    /\ devMute = FALSE
    /\ outbox = <<>>
    /\ tasks = [t \in Slots |-> IdleTask]
    /\ ui = [tab |-> "effects", busy |-> {}, effect |-> NULL]
    /\ templates = LoadedTemplates

\* connect(), no device open: requestDevice and open succeed on the vendor
\* collection
Connect ==
    /\ ~devOpen
    /\ devOpen' = TRUE
    /\ devMute' = FALSE
    /\ UNCHANGED <<outbox, tasks, ui, templates>>

\* connect(), no device open: the interface opened has no vendor collection
\* ('Wrong interface'); reports can be sent, none comes back
ConnectWrongInterface ==
    /\ ~devOpen
    /\ devOpen' = TRUE
    /\ devMute' = TRUE
    /\ UNCHANGED <<outbox, tasks, ui, templates>>

\* connect(), device open: device.close()
Disconnect ==
    /\ devOpen
    /\ devOpen' = FALSE
    /\ outbox' = <<>>
    /\ UNCHANGED <<devMute, tasks, ui, templates>>

\* a wrapper is called; the keyboard answers a READ request with the
\* configuration it holds, one of DevCfgs
Start(t, op, a, flag) ==
    /\ tasks[t].op = "none"
    /\ LET tk == [doOperation(op, a, devOpen) EXCEPT !.panel = flag]
       IN  /\ tasks' = [tasks EXCEPT ![t] = tk]
           /\ \E cfg \in DevCfgs : outbox' = Handed(tasks[t], tk, outbox, cfg, devMute)
           /\ templates' = TemplatesAfter(templates, tasks[t], tk)
    /\ UNCHANGED <<devOpen, devMute>>

CallSetEffect(t) == \E a \in EffectCalls : Start(t, "setEffect", a, "none") /\ UNCHANGED ui
CallApplyPerKey(t) == \E a \in PerKeyCalls : Start(t, "applyPerKey", a, "none") /\ UNCHANGED ui
CallSetSleep(t) == \E a \in SleepCalls : Start(t, "setSleepTimer", a, "none") /\ UNCHANGED ui
CallFactoryReset(t) == Start(t, "factoryReset", NoArgs, "none") /\ UNCHANGED ui

\* sleep(3) / sleep(50) is over: readReport registers its listener
Wake(t) ==
    /\ tasks[t].pc = "sleep"
    /\ tasks' = [tasks EXCEPT ![t].pc = "wait", ![t].figure = NoFigure]
    /\ UNCHANGED <<devOpen, devMute, outbox, ui, templates>>

\* the timer of readReport fires before any report
Timeout(t) ==
    /\ tasks[t].pc = "wait"
    /\ Len(outbox) <= MaxLate
    /\ LET tk == Resume(tasks[t], NoFrame, devOpen)
       IN  /\ tasks' = [tasks EXCEPT ![t] = tk]
           /\ outbox' = Handed(tasks[t], tk, outbox, "factory", devMute)
           /\ templates' = TemplatesAfter(templates, tasks[t], tk)
    /\ UNCHANGED <<devOpen, devMute, ui>>

\* an inputreport event: every registered listener gets the report, in
\* registration order; with no listener the report is gone
RECURSIVE Dispatch(_, _, _, _)
Dispatch(ts, ob, t, r) ==
    IF t \notin Slots THEN [tasks |-> ts, outbox |-> ob]
    ELSE IF tasks[t].pc = "wait"
         THEN LET tk == Resume(ts[t], r, devOpen)
              IN  Dispatch([ts EXCEPT ![t] = tk],
                           Handed(ts[t], tk, ob, "factory", devMute), t + 1, r)
         ELSE Dispatch(ts, ob, t + 1, r)

DeviceEmit ==
    /\ devOpen
    /\ outbox /= <<>>
    /\ LET d == Dispatch(tasks, Tail(outbox), 1, Head(outbox))
       IN  /\ tasks' = d.tasks
           /\ outbox' = d.outbox
           /\ templates' = TemplatesAfter(TemplatesAfter(templates, tasks[1], d.tasks[1]),
                                          tasks[2], d.tasks[2])
    /\ UNCHANGED <<devOpen, devMute, ui>>

\* the operations in flight are kept in the lowest slots
Compact(ts) ==
    IF ts[1].op = "none" /\ ts[2].op /= "none"
    THEN [ts EXCEPT ![1] = ts[2], ![2] = IdleTask]
    ELSE ts

\* the promise of the wrapper settles; a panel handler's finally clears its
\* busy flag if the panel that started it is still mounted
Finish(t) ==
    /\ tasks[t].pc = "done"
    /\ tasks' = Compact([tasks EXCEPT ![t] = IdleTask])
    /\ ui' = IF tasks[t].panel /= "none" /\ ~tasks[t].orphan
             THEN [ui EXCEPT !.busy = @ \ {tasks[t].panel}]
             ELSE ui
    /\ UNCHANGED <<devOpen, devMute, outbox, templates>>

\* page.tsx, a tab button: the visible panel is unmounted, its state is gone
SwitchTab(tab) ==
    /\ tab /= ui.tab
    /\ ui' = [tab |-> tab, busy |-> {}, effect |-> NULL]
    /\ tasks' = [t \in Slots |->
                    IF tasks[t].panel /= "none" /\ TabOf(tasks[t].panel) = ui.tab
                    THEN [tasks[t] EXCEPT !.orphan = TRUE] ELSE tasks[t]]
    /\ UNCHANGED <<devOpen, devMute, outbox, templates>>

\* EffectsPanel: an effect of the grid is clicked
SelectEffect(n) ==
    /\ ui.tab = "effects"
    /\ ui.effect /= n
    /\ ui' = [ui EXCEPT !.effect = n]
    /\ UNCHANGED <<devOpen, devMute, outbox, tasks, templates>>

\* a panel button is clicked: the handler sets its busy flag and awaits the wrapper
Click(t, flag, op, a) ==
    /\ ui.tab = TabOf(flag)
    /\ ~Disabled(flag)
    /\ \A u \in Slots : u < t => tasks[u].op /= "none"
    /\ Start(t, op, a, flag)
    /\ ui' = [ui EXCEPT !.busy = @ \cup {flag}]

ClickApplyEffect(t) ==
    /\ ui.effect /= NULL
    /\ Click(t, "effects", "setEffect", UiEffectArgs(ui.effect))

ClickApplyPerKey(t) == Click(t, "perkey", "applyPerKey", NoArgs)

ClickSetSleep(t) == Click(t, "sleep", "setSleepTimer", [NoArgs EXCEPT !.minutes = 0])

ClickFactoryReset(t) == Click(t, "reset", "factoryReset", NoArgs)

\* The wrappers of useKeyboard called one at a time, each awaited before the
\* next, against a keyboard that answers or not.
Next ==
    \/ Connect
    \/ ConnectWrongInterface
    \/ Disconnect
    \/ DeviceEmit
    \/ \E t \in {1} :
        \/ CallSetEffect(t)
        \/ CallApplyPerKey(t)
        \/ CallSetSleep(t)
        \/ CallFactoryReset(t)
        \/ Wake(t)
        \/ Timeout(t)
        \/ Finish(t)

Spec == Init /\ [][Next]_vars

\* a report nobody asked for, as a keyboard that keeps sending raises it
Unsolicited == <<REPORT_ID, CMD_SAVE, SUBCMD_CONFIG, 0>> \o Zeros(15) \o <<39>>

\* the keyboard queues a report of its own while an operation waits for one
DeviceChatter ==
    /\ devOpen /\ ~devMute
    /\ outbox = <<>>
    /\ tasks[1].pc = "wait"
    /\ outbox' = <<Unsolicited>>
    /\ UNCHANGED <<devOpen, devMute, tasks, ui, templates>>

\* The wrappers called one at a time on a device that stays open, so that
\* every send returns; the keyboard is silent, or answers, or keeps sending.
\* The event loop runs: a timer that is due fires and a report the keyboard
\* has queued is raised.
InitFair ==
    /\ devOpen = TRUE
    /\ devMute \in BOOLEAN
    /\ outbox = <<>>
    /\ tasks = [t \in Slots |-> IdleTask]
    /\ ui = [tab |-> "effects", busy |-> {}, effect |-> NULL]
    /\ templates = LoadedTemplates

NextFair ==
    \/ DeviceEmit
    \/ DeviceChatter
    \/ CallSetEffect(1)
    \/ CallApplyPerKey(1)
    \/ CallSetSleep(1)
    \/ CallFactoryReset(1)
    \/ Wake(1)
    \/ Timeout(1)
    \/ Finish(1)

\* a report is raised to the readReport the operation has pending
ReportResolves == tasks[1].pc = "wait" /\ DeviceEmit

\* the timer of the pending readReport can fire
TimerDue == tasks[1].pc = "wait" /\ Len(outbox) <= MaxLate

\* The event loop: a sleep that is over is resumed (weak fairness of Wake);
\* a report the keyboard has queued is raised (weak fairness of DeviceEmit,
\* which is enabled exactly when the open device has a report queued and
\* always changes the queue); the timer of a readReport fires unless a
\* report resolves that readReport first.  The next readReport sets a timer
\* of its own, so a timer is not owed to an operation whose receives keep
\* being resolved by reports.
SpecFair ==
    /\ InitFair
    /\ [][NextFair]_vars
    /\ WF_vars(Wake(1))
    /\ ([]<>(~(devOpen /\ outbox /= <<>>)) \/ []<><<DeviceEmit>>_vars)
    /\ ([]<>(~TimerDue) \/ []<><<ReportResolves>>_vars)

\* The control panel driven by the user, once connected to an interface that
\* never answers.
InitUI ==
    /\ devOpen = TRUE
    /\ devMute = TRUE
    /\ outbox = <<>>
    /\ tasks = [t \in Slots |-> IdleTask]
    /\ ui = [tab |-> "effects", busy |-> {}, effect |-> NULL]
    /\ templates = LoadedTemplates

NextUI ==
    \/ \E tab \in {"effects", "perkey", "settings"} : SwitchTab(tab)
    \/ \E n \in UiEffects : SelectEffect(n)
    \/ \E t \in Slots :
        \/ ClickApplyEffect(t)
        \/ ClickApplyPerKey(t)
        \/ ClickSetSleep(t)
        \/ ClickFactoryReset(t)
        \/ Wake(t)
        \/ Timeout(t)
        \/ Finish(t)

SpecUI == InitUI /\ [][NextUI]_vars

\* The settings panel driven by the user, connected to a keyboard that
\* answers: its two buttons have a busy flag each.  The operations are
\* followed until they have sent MaxPanelSent frames between them.
PanelWake(t) ==
    /\ Len(tasks[1].sent) + Len(tasks[2].sent) < MaxPanelSent
    /\ Wake(t)

InitPanel ==
    /\ devOpen = TRUE
    /\ devMute = FALSE
    /\ outbox = <<>>
    /\ tasks = [t \in Slots |-> IdleTask]
    /\ ui = [tab |-> "settings", busy |-> {}, effect |-> NULL]
    /\ templates = LoadedTemplates

NextPanel ==
    \/ DeviceEmit
    \/ \E t \in Slots :
        \/ ClickSetSleep(t)
        \/ ClickFactoryReset(t)
        \/ PanelWake(t)
        \/ Timeout(t)
        \/ Finish(t)

SpecPanel == InitPanel /\ [][NextPanel]_vars

\* ---------------------------------------------------------------- claims
Last(q) == q[Len(q)]
Range(q) == {q[i] : i \in 1..Len(q)}
IsPrefix(p, q) == Len(p) <= Len(q) /\ \A i \in 1..Len(p) : p[i] = q[i]

InFlight(tk) == tk.op /= "none" /\ tk.pc \in {"sleep", "wait"}

ReadHeader == <<CMD_READ, SUBCMD_CONFIRM, 0>>
SaveHeader == <<CMD_SAVE, SUBCMD_CONFIRM, 0>>
WriteHeaders == [i \in 1..10 |-> <<CMD_WRITE, SUBCMD_CONFIG, i - 1>>]
PaletteHeaders == [i \in 1..37 |-> <<CMD_COLOR, SUBCMD_PALETTE, i - 1>>]
PerKeyHeaders == [i \in 1..28 |-> <<CMD_PERKEY, SUBCMD_PERKEY, i - 1>>]

\* the frames of a whole transaction, by header
Expected(op) ==
    CASE op = "setEffect" -> <<ReadHeader>> \o WriteHeaders \o PaletteHeaders \o <<SaveHeader>>
      [] op = "applyPerKey" -> <<ReadHeader>> \o WriteHeaders \o PerKeyHeaders \o <<SaveHeader>>
      [] op = "setSleepTimer" -> <<ReadHeader>> \o WriteHeaders \o <<SaveHeader>>
      [] OTHER -> WriteHeaders \o PaletteHeaders \o <<SaveHeader>>

\* C1: whenever setEffect, applyPerKey or setSleepTimer has just sent the
\* WRITE frame of config fragment 0 built from a complete read, byte 14 of
\* that frame (the apply flag) is 0x00.
C1_ApplyFlagCleared ==
    \A t \in Slots :
        (/\ tasks[t].op \in {"setEffect", "applyPerKey", "setSleepTimer"}
         /\ tasks[t].stage = "config"
         /\ tasks[t].got = "full"
         /\ tasks[t].sent /= <<>>
         /\ Last(tasks[t].sent) = <<CMD_WRITE, SUBCMD_CONFIG, 0>>)
        => B(tasks[t].last, 14) = 0

\* C2: the frames setEffect has sent for a known effect are always a prefix
\* of READ, WRITE 0..9, COLOR 0..36, SAVE, and when it ends without a failed
\* send they are exactly these 49, with or without a custom color and for
\* effects with or without color support.
C2_EffectSendsFortyNine ==
    \A t \in Slots :
        (tasks[t].op = "setEffect" /\ tasks[t].a.effectNum \in EFFECTS)
        => /\ IsPrefix(tasks[t].sent, Expected("setEffect"))
           /\ (tasks[t].pc = "done" /\ tasks[t].log /= <<"Not connected!">>
                  /\ Last(tasks[t].log) /= "ERROR")
               => (/\ Len(tasks[t].sent) = 49
                   /\ tasks[t].sent = Expected("setEffect")
                   /\ Last(tasks[t].log) = "success")

C2_Witness ==
    \E t \in Slots :
        /\ tasks[t].op = "setEffect"
        /\ tasks[t].a.effectNum = 3
        /\ tasks[t].a.colorRgb = NoFrame
        /\ ~EffectColor(3)
        /\ tasks[t].pc = "done"
        /\ Last(tasks[t].log) = "success"
        /\ Len(tasks[t].sent) = 49

\* C3: at most one transaction is in flight at any time.
C3_OneTransactionInFlight ==
    Cardinality({t \in Slots : InFlight(tasks[t])}) <= 1

\* C4: when the wait for an echo of a config, palette, per-key or save frame
\* ends on an open device, with or without a report, the operation goes on:
\* after a write, palette or per-key frame the next frame of the transaction
\* is sent, once and in order; after the SAVE frame, which is the last frame,
\* the success line is logged.
C4_MissingEchoNeverAborts ==
    [][\A t \in Slots :
        (/\ tasks[t].pc = "wait"
         /\ tasks[t].stage \in {"config", "palette", "perkey", "save"}
         /\ devOpen
         /\ tasks'[t] /= tasks[t])
        => IF tasks[t].stage = "save"
           THEN /\ tasks'[t].pc = "done"
                /\ Last(tasks'[t].log) = "success"
                /\ tasks'[t].sent = Expected(tasks[t].op)
                /\ Last(tasks'[t].sent) = SaveHeader
           ELSE /\ tasks'[t].pc = "sleep"
                /\ tasks'[t].sent = SubSeq(Expected(tasks[t].op), 1, Len(tasks[t].sent) + 1)
      ]_vars

\* the SAVE frame has been sent after a payload phase in which echoes were missing
C4_Witness ==
    \E t \in Slots :
        /\ tasks[t].stage = "save"
        /\ tasks[t].pc = "sleep"
        /\ tasks[t].figure /= NoFigure
        /\ tasks[t].figure[2] < tasks[t].figure[3]
        /\ Last(tasks[t].sent) = SaveHeader

\* C5: setSleepTimer writes only after a complete read; when readConfig
\* returns with fewer than 10 slots filled it ends with the error line, has
\* sent the READ request and nothing else, and never logs the success line.
C5_SleepAbortsOnIncompleteRead ==
    \A t \in Slots :
        tasks[t].op = "setSleepTimer"
        => /\ tasks[t].stage = "config" => tasks[t].got = "full"
           /\ (\E i \in 1..Len(tasks[t].sent) : tasks[t].sent[i][1] \in {CMD_WRITE, CMD_SAVE})
              => "Current" \in Range(tasks[t].log)
           /\ "success" \in Range(tasks[t].log) => "Current" \in Range(tasks[t].log)
           /\ (tasks[t].pc = "done" /\ tasks[t].stage = "read")
              => /\ tasks[t].got \in {"partial", "empty"}
                 /\ tasks[t].sent = <<ReadHeader>>
                 /\ Last(tasks[t].log) = "ERROR: Could not read config"

C5_Witness ==
    \E t \in Slots :
        /\ tasks[t].op = "setSleepTimer"
        /\ tasks[t].pc = "done"
        /\ tasks[t].got = "partial"
        /\ tasks[t].sent = <<ReadHeader>>
        /\ Last(tasks[t].log) = "ERROR: Could not read config"

\* bytes of config fragment i that an operation may set on the template path
PatchedBytes(i, op, a) ==
    (IF i = 0 THEN {8, 14, 15, 17} ELSE {})
    \cup (IF op = "setEffect" /\ a.effectNum \in 1..18 /\ effectTableLoc(a.effectNum)[1] = i
          THEN {effectTableLoc(a.effectNum)[2], effectTableLoc(a.effectNum)[2] + 1}
          ELSE {})

\* f is the WRITE/CONFIG frame for fragment i built from the static template
TemplateBuilt(f, i, op, a) ==
    /\ Len(f) = 20
    /\ SubSeq(f, 1, 4) = <<REPORT_ID, CMD_WRITE, SUBCMD_CONFIG, i>>
    /\ B(f, 19) = checksum(f)
    /\ \A k \in 4..18 : k \notin PatchedBytes(i, op, a) => B(f, k) = CFG_TEMPLATE(i)[k - 3]
    /\ i = 0 => /\ B(f, 8) = 1
                /\ B(f, 14) = 0
                /\ B(f, 15) = (IF op = "setEffect" THEN a.effectNum ELSE 21)
                /\ B(f, 17) = (IF op = "setEffect"
                               THEN (IF a.colorRgb /= NoFrame \/ a.colorful THEN 1 ELSE 3)
                               ELSE 1)
    /\ (op = "setEffect" /\ a.effectNum \in 1..18 /\ effectTableLoc(a.effectNum)[1] = i
          /\ a.brightness /= NULL)
       => B(f, effectTableLoc(a.effectNum)[2]) = a.brightness

\* C6: after an incomplete read setEffect and applyPerKey write ten frames
\* that are the template with only fragment 0's confirm flag, apply flag,
\* effect number and color mode (and setEffect's parameter pair) patched,
\* whatever was read, and they go on to the payload phase and the save.
C6_TemplateOnIncompleteRead ==
    \A t \in Slots :
        tasks[t].op \in {"setEffect", "applyPerKey"}
        => /\ (tasks[t].stage = "config" /\ tasks[t].got \in {"partial", "empty"})
              => /\ Len(tasks[t].wframes) = 10
                 /\ \A i \in 0..9 : TemplateBuilt(tasks[t].wframes[i + 1], i,
                                                  tasks[t].op, tasks[t].a)
                 /\ tasks[t].pc /= "done" => tasks[t].last = tasks[t].wframes[tasks[t].idx + 1]
           /\ (tasks[t].got \in {"partial", "empty"} /\ tasks[t].pc = "done"
                 /\ Last(tasks[t].log) /= "ERROR")
              => /\ tasks[t].sent = Expected(tasks[t].op)
                 /\ Last(tasks[t].log) = "success"

\* all ten template frames have been sent after a read that filled some slots
C6_Witness ==
    \E t \in Slots :
        /\ tasks[t].op = "setEffect"
        /\ tasks[t].stage = "config"
        /\ tasks[t].got = "partial"
        /\ tasks[t].idx = 9
        /\ Len(tasks[t].sent) = 11

\* C7: setEffect with an effect number that is not in the table has sent no
\* frame, has ended, and has logged the unknown effect only.
C7_UnknownEffectSendsNothing ==
    \A t \in Slots :
        (tasks[t].op = "setEffect" /\ tasks[t].a.effectNum \notin ((1..18) \cup {21}))
        => /\ tasks[t].sent = <<>>
           /\ tasks[t].pc = "done"
           /\ tasks[t].log \in {<<"Unknown effect">>, <<"Not connected!">>}

C7_Witness ==
    \E t \in Slots :
        /\ devOpen
        /\ tasks[t].op = "setEffect"
        /\ tasks[t].a.effectNum = 19
        /\ tasks[t].log = <<"Unknown effect">>
        /\ tasks[t].sent = <<>>

\* C8: an operation called while the device is not open ends at once with
\* 'Not connected!' and no frame, and no frame is ever handed to a device
\* that is not open.
C8_NotConnectedSendsNothing ==
    [][\A t \in Slots :
        /\ (tasks[t].op = "none" /\ tasks'[t].op /= "none" /\ ~devOpen)
           => /\ tasks'[t].pc = "done"
              /\ tasks'[t].sent = <<>>
              /\ tasks'[t].log = <<"Not connected!">>
        /\ (tasks'[t].op /= "none" /\ Len(tasks'[t].sent) > Len(tasks[t].sent)) => devOpen
      ]_vars

C8_Witness ==
    \E t \in Slots :
        /\ ~devOpen
        /\ tasks[t].op \in {"setEffect", "applyPerKey", "setSleepTimer", "factoryReset"}
        /\ tasks[t].log = <<"Not connected!">>
        /\ tasks[t].sent = <<>>

\* C9: the device is open as long as an operation has frames still to send.
C9_DeviceStaysOpen ==
    \A t \in Slots : InFlight(tasks[t]) => devOpen

\* the step of t needs a send: it is not the end of the save wait and not
\* setSleepTimer giving up on an incomplete read
NeedsSend(tk) ==
    /\ tk.stage /= "save"
    /\ ~(tk.op = "setSleepTimer" /\ tk.stage = "read" /\ ~gotConfig(tk.config))

\* C10: when an operation resumes and its next send fails because the device
\* is closed, it ends there: no frame is added, the last line logged is the
\* ERROR line of the wrapper, the success line is not logged, and an
\* operation that has ended sends and logs nothing more.
C10_SendFailureStops ==
    [][\A t \in Slots :
        /\ (tasks[t].pc = "wait" /\ ~devOpen /\ tasks'[t] /= tasks[t] /\ NeedsSend(tasks[t]))
           => /\ tasks'[t].pc = "done"
              /\ tasks'[t].sent = tasks[t].sent
              /\ Last(tasks'[t].log) = "ERROR"
              /\ "success" \notin Range(tasks'[t].log)
        /\ tasks[t].pc = "done" => (tasks'[t] = tasks[t] \/ tasks'[t] = IdleTask)
      ]_vars

C10_Witness ==
    \E t \in Slots :
        /\ tasks[t].pc = "done"
        /\ Last(tasks[t].log) = "ERROR"
        /\ Len(tasks[t].sent) > 1
        /\ "success" \notin Range(tasks[t].log)

\* C11: every WRITE/CONFIG frame for fragment 0 that an operation builds or
\* has just sent, from a read or from the template, has byte 8 (the confirm
\* flag) equal to 0x01.
C11_ConfirmFlagSet ==
    \A t \in Slots :
        /\ (tasks[t].sent /= <<>> /\ Last(tasks[t].sent) = <<CMD_WRITE, SUBCMD_CONFIG, 0>>)
           => B(tasks[t].last, 8) = 1
        /\ tasks[t].wframes /= <<>> => B(tasks[t].wframes[1], 8) = 1

\* setSleepTimer has sent fragment 0 of a config read with confirm flag 0
C11_Witness ==
    \E t \in Slots :
        /\ tasks[t].op = "setSleepTimer"
        /\ tasks[t].stage = "config"
        /\ tasks[t].idx = 0
        /\ B(tasks[t].config[0], 8) = 0
        /\ Last(tasks[t].sent) = <<CMD_WRITE, SUBCMD_CONFIG, 0>>
        /\ B(tasks[t].last, 8) = 1

\* slot i of config after report r has been received
SlotAfter(config, r, i) ==
    IF r[1] = 19 /\ r[2] = 68 /\ r[3] = 10 /\ r[4] = i THEN r ELSE config[i]

\* the step takes the first queued report away from the device and raises it
\* (the operation of slot t may hand the device one frame in the same step)
Raised(t) ==
    /\ devOpen /\ devOpen'
    /\ outbox /= <<>>
    /\ Len(outbox') = Len(outbox) - 1
                      + (IF Len(tasks'[t].sent) > Len(tasks[t].sent) /\ ~devMute THEN 1 ELSE 0)

\* C12: while readConfig receives, the READ/CONFIRM frame with sequence 0
\* and an all-zero payload is the one frame sent; a report received fills
\* slot i exactly when it has report id 0x13, command READ, subcommand CONFIG
\* and sequence i, replacing what the slot held, and leaves the other slots
\* as they were; the config used for a complete read is the one so filled.
C12_ReadConfigSlots ==
    [][\A t \in Slots :
        /\ tasks'[t].stage = "read"
           => /\ tasks'[t].sent = <<ReadHeader>>
              /\ tasks'[t].last = <<19, 68, 1, 0>> \o Zeros(15) \o <<88>>
        /\ (/\ tasks[t].stage = "read" /\ tasks[t].pc = "wait"
            /\ Raised(t)
            /\ (tasks'[t].stage = "read" /\ tasks'[t].pc = "wait") \/ tasks'[t].got = "full")
           => \A i \in 0..9 : tasks'[t].config[i] = SlotAfter(tasks[t].config, Head(outbox), i)
      ]_vars

\* after an older fragment 0, a fragment with sequence 10 and the current
\* fragment 0, slot 0 holds the current one and no other slot is filled
C12_Witness ==
    \E t \in Slots :
        /\ tasks[t].stage = "read"
        /\ tasks[t].idx = 3
        /\ tasks[t].config[0] = DevFragment("used", 0)
        /\ \A i \in 1..9 : tasks[t].config[i] = NoFrame

\* the step in which readConfig of slot t returns with fewer than 10 slots filled
ReturnsIncomplete(t) ==
    /\ tasks[t].stage = "read" /\ tasks[t].pc = "wait"
    /\ tasks'[t].op = tasks[t].op
    /\ tasks'[t].got \in {"partial", "empty"}

\* C13 as stated: readConfig is never in a receive attempt beyond the 12th,
\* and when it returns with fewer than 10 slots filled the attempt that ends
\* is the 12th.
C13_AllTwelveAttempts ==
    [][\A t \in Slots :
        /\ (tasks[t].stage = "read" /\ tasks[t].pc = "wait") => tasks[t].idx + 1 <= 12
        /\ ReturnsIncomplete(t) => tasks[t].idx + 1 = 12
      ]_vars

\* C13 amended: readConfig is never in a receive attempt beyond the 12th;
\* when it returns with fewer than 10 slots filled, the attempt that ends is
\* the 12th or it is one that timed out; and an attempt that times out is
\* always the last one.
C13_AttemptsBounded ==
    [][\A t \in Slots :
        /\ (tasks[t].stage = "read" /\ tasks[t].pc = "wait") => tasks[t].idx + 1 <= 12
        /\ ReturnsIncomplete(t) => (tasks[t].idx + 1 = 12 \/ ~Raised(t))
        /\ (/\ tasks[t].stage = "read" /\ tasks[t].pc = "wait"
            /\ tasks'[t] /= tasks[t] /\ ~Raised(t))
           => /\ tasks'[t].got /= "unread"
              /\ ~(tasks'[t].stage = "read" /\ tasks'[t].pc = "wait")
      ]_vars

\* setSleepTimer gave up after a receive attempt timed out with some slots
\* filled and fewer than 11 reports received
C13_Witness ==
    \E t \in Slots :
        /\ tasks[t].op = "setSleepTimer"
        /\ tasks[t].stage = "read"
        /\ tasks[t].pc = "done"
        /\ tasks[t].got = "partial"
        /\ tasks[t].idx \in 1..10

\* channel ch (1 red, 2 green, 3 blue) of LED k in the map m, 0 when unset
Channel(m, k, ch) == IF k \in DOMAIN m THEN m[k][ch] ELSE 0

\* C14: the frames applyPerKey sends in its per-key phase are PERKEY/PERKEY
\* with sequence 0..27 ascending; frame i < 27 has payload byte 0 = 0x0E and
\* then the values of LEDs (i mod 9)*14 .. (i mod 9)*14+13 in the red (0-8),
\* green (9-17) or blue (18-26) channel, 0 for LEDs the map does not set;
\* frame 27 has payload 06 00 00 5A A5 and zeros.
C14_PerKeyFrames ==
    \A t \in Slots :
        (tasks[t].op = "applyPerKey" /\ tasks[t].stage = "perkey" /\ tasks[t].sent /= <<>>
           /\ Last(tasks[t].sent)[1] = CMD_PERKEY)
        => LET i == Len(tasks[t].sent) - 12
               f == tasks[t].last
           IN  /\ i \in 0..27
               /\ SubSeq(tasks[t].sent, 12, Len(tasks[t].sent)) = SubSeq(PerKeyHeaders, 1, i + 1)
               /\ Len(f) = 20
               /\ SubSeq(f, 1, 4) = <<19, 2, 28, i>>
               /\ IF i < 27
                  THEN /\ B(f, 4) = 14
                       /\ \A j \in 0..13 :
                             B(f, 5 + j) = Channel(tasks[t].a.keyColors, (i % 9) * 14 + j,
                                                   (i \div 9) + 1)
                  ELSE SubSeq(f, 5, 19) = <<6, 0, 0, 90, 165, 0, 0, 0, 0, 0, 0, 0, 0, 0, 0>>

\* frame 13 (green plane, LEDs 56..69) carries the green value of LED 62
C14_Witness ==
    \E t \in Slots :
        /\ tasks[t].op = "applyPerKey"
        /\ tasks[t].stage = "perkey"
        /\ DOMAIN tasks[t].a.keyColors = {0, 62, 125}
        /\ Last(tasks[t].sent) = <<CMD_PERKEY, SUBCMD_PERKEY, 13>>
        /\ B(tasks[t].last, 11) = 200

\* the value of LED k in channel ch read back from the frames of the
\* per-key phase: payload byte 1 + k mod 14 of frame k div 14 of the plane
Decoded(tk, k, ch) == B(StageFrame(tk, (ch - 1) * 9 + (k \div 14)), 4 + 1 + (k % 14))

\* C15: when applyPerKey enters its per-key phase, for every LED index
\* 0..125 the three planes of the frames of the phase decode to the triple
\* the map gives it, and to (0,0,0) when the map does not set it.
C15_PerKeyLossless ==
    \A t \in Slots :
        (tasks[t].op = "applyPerKey" /\ tasks[t].stage = "perkey" /\ tasks[t].idx = 0
           /\ tasks[t].pc = "sleep")
        => \A k \in 0..125 :
              <<Decoded(tasks[t], k, 1), Decoded(tasks[t], k, 2), Decoded(tasks[t], k, 3)>>
              = IF k \in DOMAIN tasks[t].a.keyColors THEN tasks[t].a.keyColors[k]
                ELSE <<0, 0, 0>>

\* the per-key phase of a map with entries at 0, 62 and 125
C15_Witness ==
    \E t \in Slots :
        /\ tasks[t].op = "applyPerKey"
        /\ tasks[t].stage = "perkey"
        /\ tasks[t].idx = 0
        /\ tasks[t].pc = "sleep"
        /\ DOMAIN tasks[t].a.keyColors = {0, 62, 125}
        /\ Decoded(tasks[t], 125, 1) = 126
        /\ Decoded(tasks[t], 124, 1) = 0

\* C16: applyPerKey called with a map that has an LED index outside 0..125
\* sends no per-key frame and does not end with its success line.
C16_RejectsOutOfRange ==
    \A t \in Slots :
        (tasks[t].op = "applyPerKey" /\ \E k \in DOMAIN tasks[t].a.keyColors : k \notin 0..125)
        => /\ \A i \in 1..Len(tasks[t].sent) : tasks[t].sent[i][1] /= CMD_PERKEY
           /\ "success" \notin Range(tasks[t].log)

\* the frame a config fragment is taken from: the one read, or the template
ConfigSource(tk, i) ==
    IF tk.got = "full" THEN tk.config[i]
    ELSE <<19, 4, 10, i>> \o CFG_TEMPLATE(i)

\* the operation ended without a failed send and not at the connection guard
EndedClean(tk) ==
    /\ tk.pc = "done"
    /\ Last(tk.log) \notin {"ERROR", "Not connected!"}

\* C17: the frames applyPerKey has sent are a prefix of READ, WRITE 0..9,
\* PERKEY 0..27, SAVE, none of them COLOR/PALETTE, and all 40 when it ends
\* without a failed send; its fragment 0 has effect number 21 and color mode
\* 0x01 and its fragments 4..6 (the per-effect pairs) have the payload read,
\* or the template's; setEffect sends no PERKEY frame.
C17_PerKeySendsForty ==
    \A t \in Slots :
        /\ tasks[t].op = "applyPerKey"
           => /\ IsPrefix(tasks[t].sent, Expected("applyPerKey"))
              /\ \A i \in 1..Len(tasks[t].sent) : tasks[t].sent[i][1] /= CMD_COLOR
              /\ EndedClean(tasks[t])
                 => (/\ Len(tasks[t].sent) = 40
                     /\ tasks[t].sent = Expected("applyPerKey")
                     /\ Last(tasks[t].log) = "success")
              /\ tasks[t].stage = "config"
                 => /\ B(tasks[t].wframes[1], 15) = 21
                    /\ B(tasks[t].wframes[1], 17) = 1
                    /\ \A i \in 4..6 : \A k \in 4..18 :
                          B(tasks[t].wframes[i + 1], k) = B(ConfigSource(tasks[t], i), k)
                    /\ tasks[t].pc /= "done"
                       => tasks[t].last = tasks[t].wframes[tasks[t].idx + 1]
        /\ tasks[t].op = "setEffect"
           => \A i \in 1..Len(tasks[t].sent) : tasks[t].sent[i][1] /= CMD_PERKEY

\* applyPerKey ended with 40 frames sent after reading a configuration whose
\* active effect was not 21
C17_Witness ==
    \E t \in Slots :
        /\ tasks[t].op = "applyPerKey"
        /\ tasks[t].got = "full"
        /\ tasks[t].pc = "done"
        /\ Last(tasks[t].log) = "success"
        /\ Len(tasks[t].sent) = 40

\* C18: factoryReset never reads: it sends no READ frame, and its frames are
\* a prefix of WRITE 0..9 (the template with only the confirm flag of
\* fragment 0 set), COLOR 0..36, SAVE, and all 48 when it ends without a
\* failed send.  setSleepTimer after a complete read sends READ, WRITE 0..9,
\* SAVE and neither a COLOR nor a PERKEY frame.
C18_ResetAndSleepSequences ==
    \A t \in Slots :
        /\ tasks[t].op = "factoryReset"
           => /\ tasks[t].stage /= "read"
              /\ tasks[t].got = "unread"
              /\ IsPrefix(tasks[t].sent, WriteHeaders \o PaletteHeaders \o <<SaveHeader>>)
              /\ \A i \in 1..Len(tasks[t].sent) : tasks[t].sent[i][1] /= CMD_READ
              /\ EndedClean(tasks[t])
                 => (Len(tasks[t].sent) = 48 /\ Last(tasks[t].sent) = SaveHeader)
              /\ tasks[t].stage = "config"
                 => /\ \A i \in 0..9 : \A k \in 0..18 :
                          B(tasks[t].wframes[i + 1], k)
                          = IF i = 0 /\ k = 8 THEN 1 ELSE B(ConfigSource(tasks[t], i), k)
                    /\ tasks[t].pc /= "done"
                       => tasks[t].last = tasks[t].wframes[tasks[t].idx + 1]
        /\ tasks[t].op = "setSleepTimer"
           => /\ IsPrefix(tasks[t].sent,  <<ReadHeader>> \o WriteHeaders \o <<SaveHeader>>)
              /\ (EndedClean(tasks[t]) /\ tasks[t].got = "full")
                 => (Len(tasks[t].sent) = 12 /\ Last(tasks[t].sent) = SaveHeader)

\* factoryReset ended with its 48 frames sent
C18_Witness ==
    \E t \in Slots :
        /\ tasks[t].op = "factoryReset"
        /\ tasks[t].pc = "done"
        /\ Last(tasks[t].log) = "success"
        /\ Len(tasks[t].sent) = 48
        /\ tasks[t].sent[1] = <<CMD_WRITE, SUBCMD_CONFIG, 0>>

\* palette fragment i as the static templates give it
PaletteTemplateFrame(i) ==
    buildFrame(9, 37, i, IF i < PAL_TEMPLATE_LEN THEN PAL_TEMPLATE(i)
                         ELSE IF i = 36 THEN PAL_LAST ELSE PAL_ZEROS)

C20_EffectAndColorMode ==
    \A t \in Slots :
        (tasks[t].op = "setEffect" /\ tasks[t].stage = "config")
        => LET f == tasks[t].wframes[1]
               a == tasks[t].a
           IN  /\ B(f, 15) = a.effectNum
               /\ B(f, 17) = (IF a.colorRgb /= NoFrame \/ a.colorful THEN 1 ELSE 3)
               /\ (tasks[t].idx = 0 /\ tasks[t].pc /= "done") => tasks[t].last = f

\* on the template path, effect 3 (no color support) with colorful set is
\* written with color mode 0x01
C20_Witness ==
    \E t \in Slots :
        /\ tasks[t].op = "setEffect"
        /\ tasks[t].stage = "config"
        /\ tasks[t].got \in {"partial", "empty"}
        /\ tasks[t].a.effectNum = 3 /\ tasks[t].a.colorful /\ ~EffectColor(3)
        /\ tasks[t].pc /= "done"
        /\ Last(tasks[t].sent) = <<CMD_WRITE, SUBCMD_CONFIG, 0>>
        /\ B(tasks[t].last, 17) = 1

\* the WRITE/CONFIG frame for fragment 1 that setSleepTimer has just sent
SleepFragmentOneSent(tk) ==
    /\ tk.op = "setSleepTimer"
    /\ tk.stage = "config"
    /\ tk.idx = 1
    /\ tk.pc /= "done"
    /\ Last(tk.sent) = <<CMD_WRITE, SUBCMD_CONFIG, 1>>

\* C21 as stated: the fragment-1 frame setSleepTimer sends has minutes * 2
\* in byte 15 and every other byte but the checksum as in the fragment read.
C21_OnlySleepByteChanges ==
    \A t \in Slots :
        SleepFragmentOneSent(tasks[t])
        => /\ B(tasks[t].last, 15) = tasks[t].a.minutes * 2
           /\ \A k \in 0..18 : k /= 15 => B(tasks[t].last, k) = B(tasks[t].config[1], k)

\* C21 (amended): the fragment-1 frame setSleepTimer sends has minutes * 2
\* in byte 15, the command WRITE in byte 1, the sum of bytes 0..18 modulo
\* 256 in byte 19, and every other byte as in the fragment that was read.
C21_SleepByteAndCommand ==
    \A t \in Slots :
        SleepFragmentOneSent(tasks[t])
        => /\ B(tasks[t].last, 15) = tasks[t].a.minutes * 2
           /\ B(tasks[t].last, 1) = CMD_WRITE
           /\ B(tasks[t].last, 19) = SumTo(tasks[t].last, 19) % 256
           /\ Len(tasks[t].last) = Len(tasks[t].config[1])
           /\ \A k \in 0..(Len(tasks[t].last) - 1) :
                  k \notin {1, 15, 19} => B(tasks[t].last, k) = B(tasks[t].config[1], k)

\* setSleepTimer(10) has sent 0x14 in byte 15 of a fragment read with 0 there
C21_Witness ==
    \E t \in Slots :
        /\ SleepFragmentOneSent(tasks[t])
        /\ tasks[t].a.minutes = 10
        /\ B(tasks[t].config[1], 15) = 0
        /\ B(tasks[t].last, 15) = 20
        /\ B(tasks[t].config[1], 1) = CMD_READ
\* setEffect is writing the config it built from a complete read
EffectFromRead(tk) ==
    /\ tk.op = "setEffect"
    /\ tk.got = "full"
    /\ tk.stage = "config"
    /\ tk.wframes /= <<>>

\* C22: on a complete read, each of the ten config frames setEffect builds,
\* and the one it has just sent, has the command WRITE and equals the
\* fragment read in every byte but the command, the checksum, bytes 8, 14,
\* 15, 17 of fragment 0 and the brightness/speed pair of the target effect.
C22_EffectKeepsOtherBytes ==
    \A t \in Slots :
        EffectFromRead(tasks[t])
        => /\ \A i \in 0..9 :
                  /\ B(tasks[t].wframes[i + 1], 1) = CMD_WRITE
                  /\ Len(tasks[t].wframes[i + 1]) = Len(tasks[t].config[i])
                  /\ \A k \in 0..(Len(tasks[t].config[i]) - 1) :
                         k \notin ({1, 19} \cup PatchedBytes(i, "setEffect", tasks[t].a))
                         => B(tasks[t].wframes[i + 1], k) = B(tasks[t].config[i], k)
           /\ tasks[t].pc /= "done" => tasks[t].last = tasks[t].wframes[tasks[t].idx + 1]

\* setEffect(3, brightness 2) has sent fragment 4 with another brightness
\* than the one read
C22_Witness ==
    \E t \in Slots :
        /\ EffectFromRead(tasks[t])
        /\ tasks[t].pc /= "done"
        /\ tasks[t].a.effectNum = 3
        /\ tasks[t].idx = 4
        /\ B(tasks[t].last, 11) = 2
        /\ B(tasks[t].config[4], 11) /= 2
        /\ B(tasks[t].last, 7) = B(tasks[t].config[4], 7)
\* byte 19 of f is the sum of its bytes 0..18 modulo 256
ChecksumHolds(f) == B(f, 19) = SumTo(f, 19) % 256

\* C23: the frame an operation has handed to the transport last, and every
\* config frame it has built, carries in byte 19 the sum of its bytes 0..18
\* modulo 256, whatever checksum the fragments read carried.
C23_ChecksumOnEveryFrame ==
    \A t \in Slots :
        /\ tasks[t].last /= NoFrame => ChecksumHolds(tasks[t].last)
        /\ \A i \in 1..Len(tasks[t].wframes) : ChecksumHolds(tasks[t].wframes[i])

\* a config frame has been sent with a matching checksum, copied from a
\* fragment that was read with a checksum that does not match
C23_Witness ==
    \E t \in Slots :
        /\ tasks[t].got = "full"
        /\ tasks[t].stage = "config"
        /\ tasks[t].pc /= "done"
        /\ tasks[t].idx = 3
        /\ Last(tasks[t].sent) = <<CMD_WRITE, SUBCMD_CONFIG, 3>>
        /\ ~ChecksumHolds(tasks[t].config[3])
        /\ ChecksumHolds(tasks[t].last)
\* the config the keyboard reports after it has stored the frames written:
\* the same fragments under the command READ
ReadBack(wframes) == [s \in 0..9 |-> SetB(wframes[s + 1], 1, CMD_READ)]

\* C24: the ten frames setEffect built from a complete read are the frames
\* it builds, with the same arguments, from the config the keyboard reports
\* once it has stored them.
C24_EffectIdempotent ==
    \A t \in Slots :
        EffectFromRead(tasks[t])
        => EffectWriteFrames(tasks[t].a, ReadBack(tasks[t].wframes)) = tasks[t].wframes

\* setEffect(5) with nothing given has rewritten a speed byte 0x43 as 0x40,
\* and fragment 0 as well
C24_Witness ==
    \E t \in Slots :
        /\ EffectFromRead(tasks[t])
        /\ tasks[t].a.effectNum = 5
        /\ B(tasks[t].config[4], 16) = 67
        /\ B(tasks[t].wframes[5], 16) = 64
        /\ ReadBack(tasks[t].wframes)[0] /= tasks[t].config[0]
\* C25: an operation hands a frame to the transport only when it is called
\* or in the step that ends a wait for a report (a report is raised or the
\* timer fires), one frame in a step, and never a frame it has sent before.
C25_OneFrameAtATime ==
    [][\A t \in Slots :
          Len(tasks'[t].sent) > Len(tasks[t].sent)
          => /\ tasks[t].op = "none" \/ tasks[t].pc = "wait"
             /\ tasks'[t].pc = "sleep"
             /\ tasks'[t].sent = Append(tasks[t].sent, Header(tasks'[t].last))
             /\ Header(tasks'[t].last) \notin Range(tasks[t].sent)]_vars

\* the second palette frame has been sent, after the wait for the echo of
\* the first ended without one
C25_Witness ==
    \E t \in Slots :
        /\ tasks[t].stage = "palette"
        /\ tasks[t].idx = 1
        /\ tasks[t].echoes = 0
        /\ tasks[t].pc = "sleep"
        /\ Last(tasks[t].sent) = <<CMD_COLOR, SUBCMD_PALETTE, 1>>
\* setEffect is writing the config it built for an effect of the table
EffectWithPair(tk) ==
    /\ tk.op = "setEffect"
    /\ tk.stage = "config"
    /\ tk.wframes /= <<>>
    /\ tk.a.effectNum \in 1..18

\* the frame the pair of the target effect is taken from, and the one written
PairSource(tk) == ConfigSource(tk, effectTableLoc(tk.a.effectNum)[1])
PairWritten(tk) == tk.wframes[effectTableLoc(tk.a.effectNum)[1] + 1]
PairOffset(tk) == effectTableLoc(tk.a.effectNum)[2]

\* C26: for an effect of the table, the brightness byte setEffect writes is
\* the brightness given, or the current byte when none is given; the high
\* nibble of the speed byte is the speed given, or the current high nibble;
\* the low nibble is 7 when colorful is set, 0 when a custom color is given
\* without colorful, and otherwise 7 if the current low nibble is 7, else 0.
C26_PairEncoding ==
    \A t \in Slots :
        EffectWithPair(tasks[t])
        => LET a == tasks[t].a
               off == PairOffset(tasks[t])
               src == PairSource(tasks[t])
               w == PairWritten(tasks[t])
           IN  /\ B(w, off) = (IF a.brightness /= NULL THEN a.brightness ELSE B(src, off))
               /\ B(w, off + 1) \div 16
                    = (IF a.speed /= NULL THEN a.speed ELSE B(src, off + 1) \div 16)
               /\ B(w, off + 1) % 16
                    = (IF a.colorful THEN 7
                       ELSE IF a.colorRgb /= NoFrame THEN 0
                       ELSE IF B(src, off + 1) % 16 = 7 THEN 7 ELSE 0)

\* setEffect(1) with a custom color and no brightness has written 0x40 over
\* a speed byte 0x47 and kept the brightness byte
C26_Witness ==
    \E t \in Slots :
        /\ EffectWithPair(tasks[t])
        /\ tasks[t].got = "full"
        /\ tasks[t].a.effectNum = 1
        /\ B(PairSource(tasks[t]), 8) = 71
        /\ B(PairWritten(tasks[t]), 8) = 64
        /\ B(PairWritten(tasks[t]), 7) = 4
\* C27: the speed byte setEffect writes from a complete read has a high
\* nibble in 0..4 and a low nibble 0x0 or 0x7, whatever byte the keyboard
\* reported as the current one.
C27_SpeedByteInProtocol ==
    \A t \in Slots :
        (EffectWithPair(tasks[t]) /\ tasks[t].got = "full")
        => LET b == B(PairWritten(tasks[t]), PairOffset(tasks[t]) + 1)
           IN  /\ b \div 16 \in 0..4
               /\ b % 16 \in {0, 7}

\* C28: setEffect with no speed, no color, no brightness and colorful off
\* writes, from a complete read, the brightness and speed bytes of the
\* target effect as they were read.
C28_NothingGivenKeepsPair ==
    \A t \in Slots :
        ( /\ EffectWithPair(tasks[t])
          /\ tasks[t].got = "full"
          /\ tasks[t].a.brightness = NULL
          /\ tasks[t].a.speed = NULL
          /\ tasks[t].a.colorRgb = NoFrame
          /\ ~tasks[t].a.colorful )
        => LET off == PairOffset(tasks[t])
           IN  /\ B(PairWritten(tasks[t]), off) = B(PairSource(tasks[t]), off)
               /\ B(PairWritten(tasks[t]), off + 1) = B(PairSource(tasks[t]), off + 1)
\* C30: the frame an operation has handed to the transport last is 20 bytes
\* long, also when it is a copy of a fragment the keyboard reported.
C30_FramesAreTwentyBytes ==
    \A t \in Slots : tasks[t].last /= NoFrame => Len(tasks[t].last) = 20
\* the bytes of palette fragment i that setEffect sets from its arguments
PalettePatched(i, a) ==
    IF i = 1 /\ a.colorRgb /= NoFrame THEN {12, 13, 14, 16} ELSE {}

\* frame f has payload p in every byte that is not in the set patched
SamePayloadBut(f, p, patched) ==
    IF patched = {} THEN SubSeq(f, 5, 19) = p
    ELSE \A k \in 4..18 : k \notin patched => B(f, k) = p[k - 3]

C31_NoReportMissed ==
    [][\A t \in Slots :
          ( /\ tasks[t].op /= "none"
            /\ tasks[t].stage = "read"
            /\ tasks[t].pc \in {"sleep", "wait"}
            /\ Raised(t) )
          => tasks[t].pc = "wait"]_vars
\* the step adds one to the echoes the operation of slot t counts in the
\* phase it is writing (on the last frame of a phase the count goes into
\* the 'N/total OK' figure)
CountsEcho(t) ==
    /\ tasks[t].pc = "wait"
    /\ tasks[t].stage \in {"config", "palette", "perkey"}
    /\ \/ tasks'[t].stage = tasks[t].stage /\ tasks'[t].echoes = tasks[t].echoes + 1
       \/ tasks'[t].figure /= NoFigure /\ tasks'[t].figure[2] = tasks[t].echoes + 1

\* C32: a report is counted in a phase's 'N/total OK' figure only when it
\* is the echo of the frame just sent, the same bytes.
C32_OnlyEchoesCounted ==
    [][\A t \in Slots :
          CountsEcho(t) => (outbox /= <<>> /\ Head(outbox) = tasks[t].last)]_vars
\* the config read is ten 20-byte fragments with the payloads of the template
ReadEqualsTemplate(config) ==
    \A s \in 0..9 :
        /\ Len(config[s]) = 20
        /\ SubSeq(config[s], 5, 19) = CFG_TEMPLATE(s)

\* C34: when the ten fragments read carry the payloads of the static
\* template, the ten WRITE frames setEffect builds from the read are, byte
\* for byte, the frames its template branch builds for the same arguments.
C34_ReadAndTemplateAgree ==
    \A t \in Slots :
        (EffectFromRead(tasks[t]) /\ ReadEqualsTemplate(tasks[t].config))
        => \A i \in 0..9 :
               tasks[t].wframes[i + 1] = EffectFrameFromTemplate(tasks[t].a, i)

\* setEffect(3, brightness 2) has built its frames from a read that equals
\* the template, and fragment 4 carries the new brightness
C34_Witness ==
    \E t \in Slots :
        /\ EffectFromRead(tasks[t])
        /\ ReadEqualsTemplate(tasks[t].config)
        /\ tasks[t].a.effectNum = 3
        /\ tasks[t].a.brightness = 2
        /\ B(tasks[t].wframes[5], 11) = 2
        /\ B(tasks[t].config[4], 11) = 4
        /\ B(tasks[t].wframes[1], 15) = 3
\* the step raises the report at the head of the keyboard's queue
RaisesReport ==
    /\ devOpen /\ devOpen'
    /\ outbox /= <<>>
    /\ ~IsPrefix(outbox, outbox')

\* the operation of slot t takes the report raised: it counts it as an echo
\* or stores it as a config fragment
Consumes(t) ==
    /\ RaisesReport
    /\ tasks[t].pc = "wait"
    /\ \/ CountsEcho(t)
       \/ tasks[t].stage = "read" /\ IsConfigFragment(Head(outbox))

\* C33: a report the keyboard raises is counted as an echo or stored as a
\* config fragment by at most one operation, so that the reports counted or
\* stored are never more than the reports raised.
C33_OneReceivePerReport ==
    [][Cardinality({t \in Slots : Consumes(t)}) <= 1]_vars

\* the receives of the operation in slot t: a receive of the read phase is
\* one of attempts 1..12; a receive that resolves leaves no listener behind,
\* or is followed at once by the next attempt of the read phase; a receive of
\* a write phase follows a sleep in which nothing more was sent, and when it
\* resolves the next frame is sent or the operation has ended
ReceivesBounded(t) ==
    /\ (tasks[t].stage = "read" /\ tasks[t].pc = "wait") => tasks[t].idx + 1 <= 12
    /\ (tasks[t].pc = "wait" /\ tasks'[t] /= tasks[t])
       => \/ tasks'[t].pc \in {"sleep", "done"}
          \/ /\ tasks[t].stage = "read" /\ tasks'[t].stage = "read"
             /\ tasks'[t].idx = tasks[t].idx + 1
    /\ (tasks[t].pc = "wait" /\ tasks[t].stage /= "read" /\ tasks'[t].pc = "sleep")
       => Len(tasks'[t].sent) = Len(tasks[t].sent) + 1
    /\ (tasks[t].pc /= "wait" /\ tasks'[t].pc = "wait")
       => tasks[t].pc = "sleep" /\ tasks'[t].sent = tasks[t].sent

\* C35: whatever the keyboard does (silent, echoing, or sending reports all
\* the time), as long as every send returns, an operation that was called
\* comes to its end; it makes at most 12 receives in its read phase and one
\* receive for each frame it writes, and a receive that resolves, with a
\* report or with a timeout, leaves no listener registered.
C35_Terminates ==
    /\ (tasks[1].op /= "none") ~> (tasks[1].pc = "done")
    /\ [][ReceivesBounded(1)]_vars

\* applyPerKey ended with its success line while a report the keyboard sent
\* on its own was still queued
C35_Witness ==
    /\ tasks[1].op = "applyPerKey"
    /\ tasks[1].pc = "done"
    /\ Last(tasks[1].log) = "success"
    /\ outbox = <<Unsolicited>>
====
